---------------------------- MODULE Spec2Model ----------------------------
(***************************************************************************)
(* Model of the fuel supply-chain planner: the daily loop of main.py (the  *)
(* Driver) and the Optimizer of optimizer.py (critical drain, flow model,  *)
(* endgame heuristic), over the Node / Connection / Demand records of      *)
(* models.py.                                                              *)
(*                                                                         *)
(* Quantities are integers.  The code's float comparisons against 70 %,    *)
(* 90 %, 30 % and 50 % are written cross-multiplied, which is exact for    *)
(* integer data.                                                           *)
(***************************************************************************)
EXTENDS Integers, Sequences, FiniteSets, TLC

(***************************************************************************)
(* Program constants.                                                      *)
(***************************************************************************)
TotalDays == 42

PlanningHorizonArg == 7

EndgameDays == 5

(***************************************************************************)
(* Bounds of the model.                                                    *)
(***************************************************************************)
\* Demands the Driver accepts from the server over one run.
MaxDemands == 2

\* Largest initial stock of the refinery of the chain networks.
MaxInitialStock == 1

(***************************************************************************)
(* Generic helpers.                                                        *)
(***************************************************************************)
Min(a, b) == IF a <= b THEN a ELSE b

Max(a, b) == IF a >= b THEN a ELSE b

Min4(a, b, c, d) == Min(Min(a, b), Min(c, d))

RECURSIVE SumAmounts(_)
SumAmounts(s) == IF s = << >> THEN 0 ELSE Head(s).amount + SumAmounts(Tail(s))

\* Python dict.get(key, default) on a function used as a dict.
Get(dict, key, default) == IF key \in DOMAIN dict THEN dict[key] ELSE default

\* dict[key] = value
Put(dict, key, value) ==
    [k \in (DOMAIN dict) \cup {key} |-> IF k = key THEN value ELSE dict[k]]

\* del dict[key]
Del(dict, key) == [k \in (DOMAIN dict) \ {key} |-> dict[k]]

EmptyDict == [k \in {} |-> 0]

(***************************************************************************)
(* models.py: the records.                                                 *)
(***************************************************************************)
Node(type, capacity, daily_output, daily_input, stock) ==
    [type |-> type, capacity |-> capacity, daily_output |-> daily_output,
     daily_input |-> daily_input, stock |-> stock]

\* Node.__post_init__
NodeValid(n) ==
    /\ n.type \in {"refinery", "tank", "customer"}
    /\ n.capacity >= 0
    /\ n.daily_output >= 0
    /\ n.daily_input >= 0
    /\ n.stock >= 0

\* cost_per_unit and co2_per_unit in tenths (0.5 -> 5, 0.2 -> 2, 1.0 -> 10).
ConnectionTypeMapping(connection_type) ==
    IF connection_type = "pipeline" THEN [cost_per_unit |-> 5, co2_per_unit |-> 2]
    ELSE [cost_per_unit |-> 10, co2_per_unit |-> 5]

Connection(source, destination, distance, lead_time_days, connection_type, max_capacity) ==
    [source |-> source, destination |-> destination, distance |-> distance,
     lead_time_days |-> lead_time_days, connection_type |-> connection_type,
     max_capacity |-> max_capacity,
     cost_per_unit |-> ConnectionTypeMapping(connection_type).cost_per_unit,
     co2_per_unit |-> ConnectionTypeMapping(connection_type).co2_per_unit]

\* Connection.__post_init__
ConnectionValid(c) ==
    /\ c.distance > 0
    /\ c.lead_time_days > 0
    /\ c.max_capacity > 0
    /\ c.cost_per_unit >= 0
    /\ c.co2_per_unit >= 0

\* Demand(...) as main.py builds it from a response entry: id = customerId,
\* remaining_amount defaults to quantity.
Demand(customer_id, quantity, post_day, start_delivery_day, end_delivery_day) ==
    [id |-> customer_id, customer_id |-> customer_id, quantity |-> quantity,
     post_day |-> post_day, start_delivery_day |-> start_delivery_day,
     end_delivery_day |-> end_delivery_day, remaining_amount |-> quantity]

\* Demand.__post_init__
DemandValid(d) ==
    /\ d.quantity > 0
    /\ d.post_day >= 0
    /\ d.start_delivery_day >= d.post_day
    /\ d.end_delivery_day >= d.start_delivery_day
    /\ d.remaining_amount >= 0

(***************************************************************************)
(* Iteration orders of the dicts: nodes are inserted refineries first,     *)
(* then tanks, then customers; connections in file order.                  *)
(***************************************************************************)
NodeOrder == << "r1", "t1", "c1" >>

ConnOrder == << "k1", "k2" >>


(***************************************************************************)
(* The inputs of a run: a network (the CSV files of data_loader.py, after  *)
(* the constructors of main.py), the production rates of refineries.csv    *)
(* and the demand table the game server posts from.                        *)
(***************************************************************************)
\* A refinery, a tank and a customer in a line: k1 refinery -> tank by pipeline,
\* k2 tank -> customer by truck, both of capacity 2.
Line(refinery, tank, production_rate, truck_lead_time, table) ==
    [nodes |-> [n \in {"r1", "t1", "c1"} |->
                  CASE n = "r1" -> refinery
                    [] n = "t1" -> tank
                    [] n = "c1" -> Node("customer", 0, 0, 2, 0)],
     connections |-> [k \in {"k1", "k2"} |->
                  IF k = "k1" THEN Connection("r1", "t1", 100, 1, "pipeline", 2)
                  ELSE Connection("t1", "c1", 50, truck_lead_time, "truck", 2)],
     production |-> [n \in {"r1"} |-> production_rate],
     catalog |-> table]

\* Scenario A of the specification: a refinery of capacity 1000, daily output 100
\* and stock 950, one link of capacity 500 and lead time 1 to a tank with ample
\* headroom.
ScenarioA ==
    [nodes |-> [n \in {"r1", "t1"} |->
                  IF n = "r1" THEN Node("refinery", 1000, 100, 0, 950)
                  ELSE Node("tank", 10000, 1000, 10000, 0)],
     connections |-> [k \in {"k1"} |-> Connection("r1", "t1", 100, 1, "pipeline", 500)],
     production |-> [n \in {"r1"} |-> 0],
     catalog |-> {}]

\* The tank fills while the refinery is drained and the customer is served from
\* the tank; the refinery produces less than it can ship.
Chain(initial_stock) ==
    Line(Node("refinery", 10, 2, 0, initial_stock), Node("tank", 4, 2, 3, 3), 1, 1,
         {Demand("c1", 10, 2, 3, 6), Demand("c1", 2, 36, 38, 42)})

\* The refinery produces more than it can ship.
Glut ==
    Line(Node("refinery", 2, 1, 0, 2), Node("tank", 60, 2, 3, 0), 2, 2,
         {Demand("c1", 4, 1, 2, 9)})

\* The refinery first needs clearing on day 37, when the endgame starts.
Late ==
    Line(Node("refinery", 54, 2, 0, 0), Node("tank", 4, 2, 3, 3), 1, 1,
         {Demand("c1", 2, 38, 39, 42)})

\* A refinery of capacity 0, which Node's validation accepts.
Hollow ==
    Line(Node("refinery", 0, 1, 0, 0), Node("tank", 4, 2, 3, 3), 0, 1, {})

\* The pipeline takes two days, so that what the refinery ships on one day is
\* still on its way when it ships on the next; the tank has room for one unit.
Backlog ==
    [Line(Node("refinery", 2, 1, 0, 2), Node("tank", 4, 2, 3, 3), 0, 1, {})
       EXCEPT !.connections["k1"].lead_time_days = 2]

\* Two routes out of the refinery, to the tank and straight to the customer, and
\* less stock than the two together can carry.
Fork ==
    [nodes |-> [n \in {"r1", "t1", "c1"} |->
                  CASE n = "r1" -> Node("refinery", 4, 2, 0, 3)
                    [] n = "t1" -> Node("tank", 60, 2, 3, 0)
                    [] n = "c1" -> Node("customer", 0, 0, 2, 0)],
     connections |-> [k \in {"k1", "k2"} |->
                  IF k = "k1" THEN Connection("r1", "t1", 100, 1, "pipeline", 2)
                  ELSE Connection("r1", "c1", 50, 2, "truck", 2)],
     production |-> [n \in {"r1"} |-> 0],
     catalog |-> {}]

\* The refinery supplies the customer itself, and a demand is active when the
\* endgame starts.
Direct ==
    [nodes |-> [n \in {"r1", "c1"} |->
                  IF n = "r1" THEN Node("refinery", 60, 3, 0, 2)
                  ELSE Node("customer", 0, 0, 3, 0)],
     connections |-> [k \in {"k1"} |-> Connection("r1", "c1", 50, 1, "truck", 3)],
     production |-> [n \in {"r1"} |-> 0],
     catalog |-> {Demand("c1", 2, 36, 38, 42)}]

Networks ==
    {ScenarioA, Glut, Late, Hollow, Backlog, Fork, Direct}
      \cup {Chain(s) : s \in 0 .. MaxInitialStock}

(***************************************************************************)
(* State.                                                                  *)
(***************************************************************************)
VARIABLES
    nodes,                \* main.py nodes: id -> Node, stock included
    connections,          \* main.py connections: id -> Connection
    production,           \* refineries_df "production": refinery id -> rate
    catalog,              \* the server's demand table
    current_day,          \* loop variable of main.py
    pc,                   \* the Driver's position within the day
    shipments_in_transit, \* arrival day -> list of [toNode, amount]
    demands,              \* list of Demand
    movements,            \* the list optimize() builds and returns
    is_endgame,           \* Optimizer.is_endgame
    planning_horizon,     \* Optimizer.planning_horizon
    projected_stocks,     \* Optimizer.projected_stocks: <<day, node>> -> amount
    active_demands,       \* Optimizer.demands: indices into demands
    lp_status,            \* LpStatus[status] of the day's solve, "none" before it
    day_response,         \* what play_round returned
    path,                 \* which branch of optimize() ran today
    stock_at_optimize,    \* node stocks when optimize() was called
    remaining_at_optimize, \* the demands' remaining amounts when optimize() was called
    session_id,           \* APIClient.session_id, "none" for None
    frames,               \* the APIClient calls in progress, the innermost last
    result,               \* what the last APIClient call returned
    response,             \* the last answer to a request of the APIClient
    requests_sent,        \* requests issued since the outermost call began, by kind
    end_session_calls     \* end_session calls made since the outermost call began

vars == << nodes, connections, production, catalog, current_day, pc,
           shipments_in_transit, demands, movements, is_endgame, planning_horizon,
           projected_stocks, active_demands, lp_status, day_response, path,
           stock_at_optimize, remaining_at_optimize, session_id, frames, result,
           response, requests_sent, end_session_calls >>

\* The state of the APIClient.
client == << session_id, frames, result, response, requests_sent, end_session_calls >>

inputs == << connections, production, catalog >>

optimizer == << is_endgame, planning_horizon, projected_stocks, active_demands,
                lp_status, path, stock_at_optimize, remaining_at_optimize >>

NodeIds == DOMAIN nodes

ConnIds == DOMAIN connections

\* The keys of a dict in iteration order.
NodeSeq == SelectSeq(NodeOrder, LAMBDA n : n \in NodeIds)

ConnSeq == SelectSeq(ConnOrder, LAMBDA k : k \in ConnIds)

Stocks == [n \in NodeIds |-> nodes[n].stock]

WithStock(ns, n, s) == [ns EXCEPT ![n].stock = s]

Init ==
    /\ \E net \in Networks :
          /\ nodes = net.nodes
          /\ connections = net.connections
          /\ production = net.production
          /\ catalog = net.catalog
    /\ current_day = 0
    /\ pc = "arrivals"
    /\ shipments_in_transit = EmptyDict
    /\ demands = << >>
    /\ movements = << >>
    /\ is_endgame = FALSE
    /\ planning_horizon = 0
    /\ projected_stocks = EmptyDict
    /\ active_demands = << >>
    /\ lp_status = "none"
    /\ day_response = [received |-> FALSE, demand |-> << >>]
    /\ path = "none"
    /\ stock_at_optimize = Stocks
    /\ remaining_at_optimize = << >>
    /\ session_id = "none"
    /\ frames = << >>
    /\ result = "none"
    /\ response = "none"
    /\ requests_sent = [start |-> 0, play |-> 0, end |-> 0]
    /\ end_session_calls = 0

(***************************************************************************)
(* main.py: the Driver's steps of one day.                                 *)
(***************************************************************************)
\* The demands with remaining_amount > 0, as indices, in list order.
ActiveIndices(ds) ==
    SelectSeq([i \in 1 .. Len(ds) |-> i], LAMBDA i : ds[i].remaining_amount > 0)

\* A ledger that files a shipment one day before its arrival day; the ledger
\* properties must tell it from Schedule.
ScheduleEarly(ledger, day, to_node, amount) ==
    Put(ledger, day - 1, Append(Get(ledger, day - 1, << >>),
                                [toNode |-> to_node, amount |-> amount]))

\* shipments_in_transit[day] = shipments_in_transit.get(day, []); then append.
Schedule(ledger, day, to_node, amount) ==
    Put(ledger, day, Append(Get(ledger, day, << >>),
                            [toNode |-> to_node, amount |-> amount]))

\* main.py 205-209
DeliverableAmount(demand, node, excess_amount) ==
    Min(Min(demand.remaining_amount, node.daily_output), excess_amount)

\* A demand update with the sign reversed; the remaining-amount properties
\* must tell it from ReduceRemaining.
IncreaseRemaining(demand, deliverable_amount) ==
    [demand EXCEPT !.remaining_amount = @ + deliverable_amount]

\* main.py 225: demand.remaining_amount -= deliverable_amount
ReduceRemaining(demand, deliverable_amount) ==
    [demand EXCEPT !.remaining_amount = @ - deliverable_amount]

\* manage_final_day_stock, the inner loop over the active demands for one tank.
\* st = [nodes, demands, ledger].
RECURSIVE ManageDemands(_, _, _, _)
ManageDemands(node_id, idxs, excess_amount, st) ==
    IF idxs = << >> THEN st
    ELSE LET i == Head(idxs)
             demand == st.demands[i]
             node == st.nodes[node_id]
         IN  IF demand.start_delivery_day <= current_day
                /\ current_day <= demand.end_delivery_day
             THEN LET deliverable_amount ==
                          DeliverableAmount(demand, node, excess_amount)
                      shipped ==
                          [nodes |-> WithStock(st.nodes, node_id,
                                               node.stock - deliverable_amount),
                           demands |-> [st.demands EXCEPT ![i] =
                                          ReduceRemaining(demand, deliverable_amount)],
                           ledger |-> Schedule(st.ledger, current_day + 1,
                                               demand.customer_id, deliverable_amount)]
                  IN  IF deliverable_amount > 0
                      THEN IF excess_amount - deliverable_amount <= 0
                           THEN shipped
                           ELSE ManageDemands(node_id, Tail(idxs),
                                              excess_amount - deliverable_amount,
                                              shipped)
                      ELSE ManageDemands(node_id, Tail(idxs), excess_amount, st)
             ELSE ManageDemands(node_id, Tail(idxs), excess_amount, st)

\* manage_final_day_stock, the outer loop over the nodes.
RECURSIVE ManageNodes(_, _)
ManageNodes(ids, st) ==
    IF ids = << >> THEN st
    ELSE LET node_id == Head(ids)
             node == st.nodes[node_id]
         IN  IF node.type = "tank" /\ node.stock * 10 > node.capacity * 9
             THEN ManageNodes(Tail(ids),
                              ManageDemands(node_id, ActiveIndices(st.demands),
                                            node.stock - node.capacity, st))
             ELSE ManageNodes(Tail(ids), st)

\* main.py 282-283: on the last days, before anything else.
ManageFinalDayStock ==
    /\ pc = "manage"
    /\ LET st == ManageNodes(NodeSeq, [nodes |-> nodes, demands |-> demands,
                                        ledger |-> shipments_in_transit])
       IN  /\ nodes' = st.nodes
           /\ demands' = st.demands
           /\ shipments_in_transit' = st.ledger
    /\ pc' = "arrivals"
    /\ UNCHANGED << inputs, client, current_day, movements, optimizer, day_response >>

\* main.py 287-294: credit every shipment of today's list.
RECURSIVE Credit(_, _)
Credit(ns, shipments) ==
    IF shipments = << >> THEN ns
    ELSE LET shipment == Head(shipments)
             node_id == shipment.toNode
         IN  Credit(IF node_id \in DOMAIN ns
                    THEN WithStock(ns, node_id, ns[node_id].stock + shipment.amount)
                    ELSE ns,
                    Tail(shipments))

\* main.py 285-295
ApplyArrivals ==
    /\ pc = "arrivals"
    /\ IF current_day \in DOMAIN shipments_in_transit
       THEN /\ nodes' = Credit(nodes, shipments_in_transit[current_day])
            /\ shipments_in_transit' = Del(shipments_in_transit, current_day)
       ELSE UNCHANGED << nodes, shipments_in_transit >>
    /\ pc' = "produce"
    /\ UNCHANGED << inputs, client, current_day, demands, movements, optimizer, day_response >>

\* A production that is never reduced; the production properties must tell it
\* from ProducedAmount.
ProducedAtFullRate(node_id, node) == production[node_id]

\* main.py 300-327: what one refinery produces today.
ProducedAmount(node_id, node) ==
    LET production_rate == production[node_id]
        remaining_days == TotalDays - current_day
        available_capacity == node.capacity - node.stock
    IN  IF remaining_days <= EndgameDays
        THEN Min(production_rate, available_capacity)
        ELSE production_rate

\* main.py 297-330
Produce ==
    /\ pc = "produce"
    /\ nodes' = [n \in NodeIds |->
                   IF nodes[n].type = "refinery"
                   THEN [nodes[n] EXCEPT !.stock = @ + ProducedAmount(n, nodes[n])]
                   ELSE nodes[n]]
    /\ pc' = "optimizer"
    /\ UNCHANGED << inputs, client, current_day, shipments_in_transit, demands, movements,
                    optimizer, day_response >>

\* A mode test that starts the endgame one day late; the mode properties must
\* tell it from IsEndgame.
IsEndgameStrict(day) == TotalDays - day < EndgameDays

\* optimizer.py 25
IsEndgame(day) == TotalDays - day <= EndgameDays

\* main.py 333-342 with Optimizer.__init__
NewOptimizer ==
    /\ pc = "optimizer"
    /\ active_demands' = ActiveIndices(demands)
    /\ planning_horizon' = Min(PlanningHorizonArg, TotalDays - current_day + 1)
    /\ is_endgame' = IsEndgame(current_day)
    /\ projected_stocks' = EmptyDict
    /\ movements' = << >>
    /\ lp_status' = "none"
    /\ path' = "none"
    /\ stock_at_optimize' = Stocks
    /\ remaining_at_optimize' = [i \in 1 .. Len(demands) |-> demands[i].remaining_amount]
    /\ pc' = "critical"
    /\ UNCHANGED << inputs, client, nodes, current_day, shipments_in_transit, demands,
                    day_response >>

(***************************************************************************)
(* optimizer.py: the route index.                                          *)
(***************************************************************************)
\* sorted(routes, key=lead_time): Python's sort is stable.
RECURSIVE InsertByLeadTime(_, _)
InsertByLeadTime(route, sorted) ==
    IF sorted = << >> THEN << route >>
    ELSE IF Head(sorted).lead_time <= route.lead_time
         THEN << Head(sorted) >> \o InsertByLeadTime(route, Tail(sorted))
         ELSE << route >> \o sorted

RECURSIVE SortedByLeadTime(_)
SortedByLeadTime(routes) ==
    IF routes = << >> THEN << >>
    ELSE InsertByLeadTime(Head(routes), SortedByLeadTime(Tail(routes)))

\* The routes out of a node, in connection order.
RoutesFrom(node_id) ==
    LET ks == SelectSeq(ConnSeq, LAMBDA k : connections[k].source = node_id)
    IN  [i \in 1 .. Len(ks) |->
           [conn_id |-> ks[i], dest_id |-> connections[ks[i]].destination,
            lead_time |-> connections[ks[i]].lead_time_days,
            max_capacity |-> connections[ks[i]].max_capacity]]

\* self.refinery_routes.get(refinery_id, [])
RefineryRoutes(refinery_id) ==
    IF refinery_id \in NodeIds /\ nodes[refinery_id].type = "refinery"
    THEN RoutesFrom(refinery_id) ELSE << >>

\* self.customer_routes.get(customer_id, [])
CustomerRoutes(customer_id) ==
    IF customer_id \in NodeIds /\ nodes[customer_id].type = "customer"
    THEN LET ks == SelectSeq(ConnSeq, LAMBDA k : connections[k].destination = customer_id)
         IN  [i \in 1 .. Len(ks) |->
                [conn_id |-> ks[i], source_id |-> connections[ks[i]].source,
                 lead_time |-> connections[ks[i]].lead_time_days,
                 max_capacity |-> connections[ks[i]].max_capacity]]
    ELSE << >>

\* The movement dict; "by" records which pass built it (not a key of the code's
\* dict: "critical", "lp", "endgame_a", "endgame_b").
Movement(conn_id, amount, from_node, to_node, lead_time, by) ==
    [connectionId |-> conn_id, amount |-> amount, fromNode |-> from_node,
     toNode |-> to_node, postedDay |-> current_day, leadTime |-> lead_time,
     by |-> by]

\* self.projected_stocks[arrival_day][node] += amount
Project(projected, arrival_day, node_id, amount) ==
    Put(projected, << arrival_day, node_id >>,
        Get(projected, << arrival_day, node_id >>, 0) + amount)

(***************************************************************************)
(* optimizer.py: _handle_critical_refineries.                              *)
(***************************************************************************)
\* A drain that clears every refinery with stock; the drain properties must
\* tell it from IsCritical.
IsCriticalWithStock(node) == node.stock > 0

\* optimizer.py 129-133: the refinery needs urgent clearing.
IsCritical(node) ==
    \/ node.stock * 100 > 70 * node.capacity
    \/ (node.stock + node.daily_output) * 10 > node.capacity * 9

\* optimizer.py 151-162: the room the drain sees at a destination.
DrainAvailableSpace(dest_id, lead_time, ns, projected) ==
    IF ns[dest_id].type = "tank"
    THEN ns[dest_id].capacity - ns[dest_id].stock
           - Get(projected, << current_day + lead_time, dest_id >>, 0)
    ELSE ns[dest_id].daily_input

\* A drain amount without the daily-output term; the drain properties must tell
\* it from DrainAmount.
DrainAmountUpToLink(remaining_stock, route, available_space, node) ==
    Min(Min(remaining_stock, route.max_capacity), available_space)

\* optimizer.py 165-170
DrainAmount(remaining_stock, route, available_space, node) ==
    Min4(remaining_stock, route.max_capacity, available_space, node.daily_output)

\* A drain that forgets what it has shipped; the drain properties must tell it
\* from RemainingAfter.
RemainingKept(remaining_stock, amount) == remaining_stock

\* optimizer.py 182: remaining_stock -= amount
RemainingAfter(remaining_stock, amount) == remaining_stock - amount

\* optimizer.py 145-195: the routes of one refinery.
\* acc = [raised, movements, projected].
RECURSIVE DrainRoutes(_, _, _, _)
DrainRoutes(refinery_id, routes, remaining_stock, acc) ==
    IF routes = << >> \/ remaining_stock <= 0 THEN acc
    ELSE LET route == Head(routes)
         IN  IF route.dest_id \notin NodeIds
             THEN [acc EXCEPT !.raised = TRUE]       \* KeyError
             ELSE LET amount ==
                          DrainAmount(remaining_stock, route,
                                      DrainAvailableSpace(route.dest_id, route.lead_time,
                                                          nodes, acc.projected),
                                      nodes[refinery_id])
                  IN  IF amount > 0
                      THEN DrainRoutes(refinery_id, Tail(routes),
                               RemainingAfter(remaining_stock, amount),
                               [raised |-> FALSE,
                                movements |-> Append(acc.movements,
                                    Movement(route.conn_id, amount, refinery_id,
                                             route.dest_id, route.lead_time, "critical")),
                                projected |-> Project(acc.projected,
                                    current_day + route.lead_time, route.dest_id, amount)])
                      ELSE DrainRoutes(refinery_id, Tail(routes), remaining_stock, acc)

\* optimizer.py 124-197: the loop over the nodes.
RECURSIVE DrainNodes(_, _)
DrainNodes(ids, acc) ==
    IF ids = << >> \/ acc.raised THEN acc
    ELSE LET node == nodes[Head(ids)]
         IN  IF node.type # "refinery" THEN DrainNodes(Tail(ids), acc)
             ELSE IF node.capacity = 0
             THEN [acc EXCEPT !.raised = TRUE]       \* ZeroDivisionError
             ELSE IF IsCritical(node)
             THEN DrainNodes(Tail(ids),
                      DrainRoutes(Head(ids), SortedByLeadTime(RefineryRoutes(Head(ids))),
                                  node.stock, acc))
             ELSE DrainNodes(Tail(ids), acc)

HandleCriticalRefineries ==
    DrainNodes(NodeSeq, [raised |-> FALSE, movements |-> << >>,
                         projected |-> projected_stocks])

\* optimizer.py 104-106, 116-118: the first statement of optimize(); an
\* exception ends optimize() with an empty list.
CriticalDrain ==
    /\ pc = "critical"
    /\ LET r == HandleCriticalRefineries
       IN  IF r.raised
           THEN /\ movements' = << >>
                /\ pc' = "submit"
                /\ UNCHANGED projected_stocks
           ELSE /\ movements' = r.movements
                /\ projected_stocks' = r.projected
                /\ pc' = "allocate"
    /\ UNCHANGED << inputs, client, nodes, current_day, shipments_in_transit, demands,
                    is_endgame, planning_horizon, active_demands, lp_status, path,
                    stock_at_optimize, remaining_at_optimize, day_response >>

(***************************************************************************)
(* optimizer.py: the flow model of _optimize_normal.                       *)
(*                                                                         *)
(* A flow assignment x maps <<connection, day>> to a quantity, one entry   *)
(* per flow variable.  The constraints take two assignments, lo and hi: a  *)
(* term that makes a constraint harder to meet reads lo, a term that makes *)
(* it easier reads hi.  With lo = hi = x they are the code's constraints   *)
(* on x.                                                                   *)
(***************************************************************************)
\* lpSum: the sum of the values of a function.
RECURSIVE SumOf(_)
SumOf(f) ==
    IF DOMAIN f = {} THEN 0
    ELSE LET e == CHOOSE e \in DOMAIN f : TRUE
         IN  f[e] + SumOf([d \in (DOMAIN f) \ {e} |-> f[d]])

\* range(self.current_day, self.current_day + self.planning_horizon)
HorizonDays == current_day .. (current_day + planning_horizon - 1)

\* optimizer.py 331-347: upBound of the variables of one connection.
FlowUpperBound(conn_id) ==
    LET conn == connections[conn_id]
        source_node == nodes[conn.source]
        dest_node == nodes[conn.destination]
        max_outflow == IF source_node.type # "refinery"
                       THEN Min(source_node.daily_output, source_node.stock)
                       ELSE source_node.daily_output
        max_inflow == IF dest_node.type = "customer"
                      THEN dest_node.daily_input
                      ELSE dest_node.capacity - dest_node.stock
    IN  Min(Min(conn.max_capacity, max_outflow), max_inflow)

\* lowBound=0, upBound=upper_bound: no value lies in an empty interval.
BoundsSatisfiable == \A k \in ConnIds : FlowUpperBound(k) >= 0

\* _calculate_inflow
Inflow(node_id, day, x) ==
    LET arriving == {k \in ConnIds : /\ connections[k].destination = node_id
                                     /\ day - connections[k].lead_time_days >= current_day}
    IN  SumOf([k \in arriving |->
                 Get(x, << k, day - connections[k].lead_time_days >>, 0)])
          + Get(projected_stocks, << day, node_id >>, 0)

\* _calculate_outflow
Outflow(node_id, day, x) ==
    LET leaving == {k \in ConnIds : connections[k].source = node_id}
    IN  SumOf([k \in leaving |-> Get(x, << k, day >>, 0)])

\* _add_capacity_constraints, one node and one day.
CapacityConstraint(node_id, day, lo, hi) ==
    LET node == nodes[node_id]
    IN  /\ node.type = "refinery" =>
              node.stock + Inflow(node_id, day, lo) - Outflow(node_id, day, hi)
                + node.daily_output <= node.capacity
        /\ node.type = "tank" =>
              /\ node.stock + Inflow(node_id, day, lo) - Outflow(node_id, day, hi)
                   <= node.capacity
              /\ Inflow(node_id, day, lo) <= node.daily_input
        /\ IF node.type \in {"refinery", "tank"}
           THEN Outflow(node_id, day, lo) <= node.daily_output
           ELSE Inflow(node_id, day, lo) <= node.daily_input

\* _add_flow_conservation_constraints, one node and one day.
FlowConservationConstraint(node_id, day, lo, hi) ==
    LET node == nodes[node_id]
    IN  node.type # "customer" =>
          /\ node.stock + Inflow(node_id, day, hi) - Outflow(node_id, day, lo)
               + (IF node.type = "refinery" THEN node.daily_output ELSE 0) >= 0
          /\ node.type = "tank" =>
               Inflow(node_id, day, lo) <= node.capacity - node.stock

\* optimizer.py 441-447: range(max(...), min(...))
DeliveryWindow(demand) ==
    Max(current_day, demand.start_delivery_day) ..
      (Min(current_day + planning_horizon, demand.end_delivery_day + 1) - 1)

\* optimizer.py 453-463
TotalDelivery(demand, x) ==
    LET terms == {t \in ConnIds \X DeliveryWindow(demand) :
                    /\ connections[t[1]].destination = demand.customer_id
                    /\ << t[1], t[2] - connections[t[1]].lead_time_days >> \in DOMAIN x}
    IN  SumOf([t \in terms |-> x[<< t[1], t[2] - connections[t[1]].lead_time_days >>]])

\* _add_demand_fulfillment_constraints, one demand: total >= min(share, intake).
DemandConstraint(demand, hi) ==
    (demand.remaining_amount > 0 /\ demand.end_delivery_day >= current_day
       /\ DeliveryWindow(demand) # {}) =>
      LET total == TotalDelivery(demand, hi)
          intake == nodes[demand.customer_id].daily_input
                      * Cardinality(DeliveryWindow(demand))
          days_until_due == demand.end_delivery_day - current_day
      IN  IF days_until_due <= 3
          THEN 2 * total >= demand.remaining_amount \/ total >= intake
          ELSE 10 * total >= 3 * demand.remaining_amount \/ total >= intake

\* Every constraint _optimize_normal adds to the model.
ModelConstraints(lo, hi) ==
    /\ \A node_id \in NodeIds : \A day \in HorizonDays :
          /\ CapacityConstraint(node_id, day, lo, hi)
          /\ FlowConservationConstraint(node_id, day, lo, hi)
    /\ \A i \in 1 .. Len(active_demands) :
          DemandConstraint(demands[active_demands[i]], hi)

\* _build_objective_function: the coefficient of a flow variable, in hundredths
\* (cost_weight 1.0, co2_weight 0.5 outside the endgame).
ObjectiveCoefficient(conn_id) ==
    LET conn == connections[conn_id]
    IN  10 * conn.cost_per_unit * conn.distance + 5 * conn.co2_per_unit * conn.distance

FlowKeys == ConnIds \X HorizonDays

ZeroFlow == [key \in FlowKeys |-> 0]

\* The all-zero assignment is feasible and every flow costs: it is the optimum.
ZeroIsOptimal ==
    /\ BoundsSatisfiable
    /\ ModelConstraints(ZeroFlow, ZeroFlow)
    /\ \A k \in ConnIds : ObjectiveCoefficient(k) > 0

\* Today's flows today_flow with the later days' variables at their least (lo)
\* and at their most (hi).
LeastLater(today_flow) ==
    [key \in FlowKeys |-> IF key[2] = current_day THEN today_flow[key[1]] ELSE 0]

MostLater(today_flow) ==
    [key \in FlowKeys |->
       IF key[2] = current_day THEN today_flow[key[1]] ELSE FlowUpperBound(key[1])]

\* Today's part of a feasible assignment satisfies every constraint with the
\* later days' variables taken at whichever end of their interval helps.
PossibleToday(today_flow) ==
    /\ BoundsSatisfiable
    /\ \A k \in ConnIds : today_flow[k] <= FlowUpperBound(k)
    /\ ModelConstraints(LeastLater(today_flow), MostLater(today_flow))

LargestUpperBound ==
    LET bounds == {Max(FlowUpperBound(k), 0) : k \in ConnIds} \cup {0}
    IN  CHOOSE m \in bounds : \A b \in bounds : m >= b

\* The same flows on every day of the horizon.
Steady(today_flow) == [key \in FlowKeys |-> today_flow[key[1]]]

\* Some steady assignment satisfies every constraint: the model has a solution.
CertainlyFeasible ==
    /\ BoundsSatisfiable
    /\ \E g \in [ConnIds -> 0 .. LargestUpperBound] :
          /\ \A k \in ConnIds : g[k] <= FlowUpperBound(k)
          /\ ModelConstraints(Steady(g), Steady(g))

\* model.solve(solver): the status and today's values of the flow variables.
\* When the all-zero assignment is the optimum the solver returns it.  Otherwise
\* it returns the today-part of some feasible assignment, or, unless the model
\* is known to have a solution, finds none and leaves any values in the
\* variables.
SolverAnswers ==
    IF ZeroIsOptimal
    THEN {[status |-> "Optimal", flow |-> [k \in ConnIds |-> 0]]}
    ELSE {[status |-> "Infeasible", flow |-> f] :
            f \in IF CertainlyFeasible THEN {}
                  ELSE [ConnIds -> 0 .. LargestUpperBound]}
           \cup {[status |-> "Optimal", flow |-> f] :
                   f \in {g \in [ConnIds -> 0 .. LargestUpperBound] : PossibleToday(g)}}

\* optimizer.py 324-327, 350: the keys of flow_vars in the order they are
\* inserted, connection by connection and day by day.
RECURSIVE FlowVarSeq(_)
FlowVarSeq(ks) ==
    IF ks = << >> THEN << >>
    ELSE [i \in 1 .. planning_horizon |-> << Head(ks), current_day + i - 1 >>]
           \o FlowVarSeq(Tail(ks))

\* An extraction that reads the variables of every day of the horizon; the
\* movement properties must tell it from IsTodaysVariable.
IsAnyDaysVariable(key) == TRUE

\* optimizer.py 511: day == self.current_day
IsTodaysVariable(key) == key[2] = current_day

\* _extract_movements: the variables of today with a positive value.  flow
\* gives every variable of the horizon its value.
RECURSIVE ExtractMovements(_, _, _)
ExtractMovements(keys, flow, acc) ==
    IF keys = << >> THEN acc
    ELSE LET conn_id == Head(keys)[1]
             conn == connections[conn_id]
         IN  IF IsTodaysVariable(Head(keys)) /\ flow[Head(keys)] > 0
             THEN ExtractMovements(Tail(keys), flow,
                      [movements |-> Append(acc.movements,
                           Movement(conn_id, flow[Head(keys)], conn.source,
                                    conn.destination, conn.lead_time_days, "lp")),
                       projected |-> Project(acc.projected,
                           current_day + conn.lead_time_days, conn.destination,
                           flow[Head(keys)])])
             ELSE ExtractMovements(Tail(keys), flow, acc)

\* _create_flow_variables and the demand constraints look nodes up by id.
ModelRaises ==
    \/ \E k \in ConnIds : connections[k].source \notin NodeIds
                            \/ connections[k].destination \notin NodeIds
    \/ \E i \in 1 .. Len(active_demands) :
          LET demand == demands[active_demands[i]]
          IN  /\ demand.end_delivery_day >= current_day
              /\ DeliveryWindow(demand) # {}
              /\ demand.customer_id \notin NodeIds

\* A flow-model path that reads the variables whatever the status; the
\* non-Optimal properties must tell it from OptimizeNormal.
OptimizeNormalAnyStatus(answer) ==
    ExtractMovements(FlowVarSeq(ConnSeq), MostLater(answer.flow),
                     [movements |-> << >>, projected |-> projected_stocks])

\* _optimize_normal, given the solver's answer.
OptimizeNormal(answer) ==
    IF answer.status # "Optimal"
    THEN [movements |-> << >>, projected |-> projected_stocks]
    ELSE ExtractMovements(FlowVarSeq(ConnSeq), MostLater(answer.flow),
                          [movements |-> << >>, projected |-> projected_stocks])

\* optimizer.py 109-110, 114: the flow-model branch of optimize().
AllocateNormal ==
    /\ pc = "allocate"
    /\ ~is_endgame
    /\ path' = "normal"
    /\ IF ModelRaises
       THEN /\ movements' = << >>
            /\ UNCHANGED << lp_status, projected_stocks >>
       ELSE \E answer \in SolverAnswers :
              /\ lp_status' = answer.status
              /\ movements' = movements \o OptimizeNormal(answer).movements
              /\ projected_stocks' = OptimizeNormal(answer).projected
    /\ pc' = "submit"
    /\ UNCHANGED << inputs, client, nodes, current_day, shipments_in_transit, demands,
                    is_endgame, planning_horizon, active_demands, stock_at_optimize,
                    remaining_at_optimize, day_response >>

(***************************************************************************)
(* optimizer.py: _optimize_endgame.                                        *)
(***************************************************************************)
\* optimizer.py 248-252: the room pass (a) sees at a destination.
EndgameAvailableSpace(dest_node) ==
    IF dest_node.type = "tank" THEN dest_node.capacity - dest_node.stock
    ELSE dest_node.daily_input

\* optimizer.py 244: the route lands after the run's last day.
ArrivesTooLate(route) == current_day + route.lead_time > TotalDays

\* optimizer.py 239-271: pass (a), the routes of one refinery.
\* acc = [raised, movements, nodes].
RECURSIVE ClearRoutes(_, _, _, _)
ClearRoutes(refinery_id, routes, remaining_stock, acc) ==
    IF routes = << >> \/ remaining_stock <= 0 THEN acc
    ELSE LET route == Head(routes)
         IN  IF ArrivesTooLate(route)
             THEN ClearRoutes(refinery_id, Tail(routes), remaining_stock, acc)
             ELSE IF route.dest_id \notin NodeIds
             THEN [acc EXCEPT !.raised = TRUE]       \* KeyError
             ELSE LET amount ==
                          Min4(remaining_stock, route.max_capacity,
                               EndgameAvailableSpace(acc.nodes[route.dest_id]),
                               acc.nodes[refinery_id].daily_output)
                  IN  IF amount > 0
                      THEN ClearRoutes(refinery_id, Tail(routes),
                               remaining_stock - amount,
                               [acc EXCEPT !.movements = Append(@,
                                    Movement(route.conn_id, amount, refinery_id,
                                             route.dest_id, route.lead_time,
                                             "endgame_a"))])
                      ELSE ClearRoutes(refinery_id, Tail(routes), remaining_stock, acc)

\* optimizer.py 230-271: pass (a), the loop over the nodes.
RECURSIVE ClearRefineries(_, _)
ClearRefineries(ids, acc) ==
    IF ids = << >> \/ acc.raised THEN acc
    ELSE LET node == acc.nodes[Head(ids)]
         IN  IF node.type # "refinery" \/ node.stock <= 0
             THEN ClearRefineries(Tail(ids), acc)
             ELSE ClearRefineries(Tail(ids),
                      ClearRoutes(Head(ids), SortedByLeadTime(RefineryRoutes(Head(ids))),
                                  node.stock, acc))

\* optimizer.py 297-304
DemandAmount(remaining_amount, route, source_node) ==
    Min4(remaining_amount, route.max_capacity, source_node.stock,
         source_node.daily_output)

\* optimizer.py 289-317: pass (b), the routes towards one demand's customer.
RECURSIVE FulfilRoutes(_, _, _, _)
FulfilRoutes(customer_id, routes, remaining_amount, acc) ==
    IF routes = << >> \/ remaining_amount <= 0 THEN acc
    ELSE LET route == Head(routes)
         IN  IF route.source_id \notin NodeIds
             THEN [acc EXCEPT !.raised = TRUE]       \* KeyError
             ELSE LET source_node == acc.nodes[route.source_id]
                      amount == DemandAmount(remaining_amount, route, source_node)
                  IN  IF source_node.stock <= 0 \/ amount <= 0
                      THEN FulfilRoutes(customer_id, Tail(routes), remaining_amount, acc)
                      ELSE FulfilRoutes(customer_id, Tail(routes),
                               remaining_amount - amount,
                               [raised |-> FALSE,
                                movements |-> Append(acc.movements,
                                    Movement(route.conn_id, amount, route.source_id,
                                             customer_id, route.lead_time, "endgame_b")),
                                nodes |-> WithStock(acc.nodes, route.source_id,
                                                    source_node.stock - amount)])

\* optimizer.py 274-317: pass (b), the loop over self.demands.
RECURSIVE FulfilDemands(_, _)
FulfilDemands(idxs, acc) ==
    IF idxs = << >> \/ acc.raised THEN acc
    ELSE LET demand == demands[Head(idxs)]
             routes == SelectSeq(CustomerRoutes(demand.customer_id),
                                 LAMBDA r : ~ArrivesTooLate(r))
         IN  IF demand.remaining_amount <= 0 \/ routes = << >>
             THEN FulfilDemands(Tail(idxs), acc)
             ELSE FulfilDemands(Tail(idxs),
                      FulfilRoutes(demand.customer_id, SortedByLeadTime(routes),
                                   demand.remaining_amount, acc))

\* _optimize_endgame: pass (a), then pass (b) on what pass (a) left.
OptimizeEndgame ==
    FulfilDemands(active_demands,
        ClearRefineries(NodeSeq, [raised |-> FALSE, movements |-> << >>,
                                  nodes |-> nodes]))

\* optimizer.py 111-114, 116-118: the endgame branch of optimize(); the stock
\* pass (b) deducted stays deducted, also when the pass raised.
AllocateEndgame ==
    /\ pc = "allocate"
    /\ is_endgame
    /\ path' = "endgame"
    /\ LET r == OptimizeEndgame
       IN  /\ movements' = IF r.raised THEN << >> ELSE movements \o r.movements
           /\ nodes' = r.nodes
    /\ pc' = "submit"
    /\ UNCHANGED << inputs, client, current_day, shipments_in_transit, demands, is_endgame,
                    planning_horizon, projected_stocks, active_demands, lp_status,
                    stock_at_optimize, remaining_at_optimize, day_response >>

(***************************************************************************)
(* main.py: the rest of the day.                                           *)
(***************************************************************************)
\* What the server can answer on a day: the demands of its table posted that day,
\* any subset of them.
PostableToday == {d \in catalog : d.post_day = current_day}

\* play_round returned None.
NoResponse == [received |-> FALSE, demand |-> << >>]

RECURSIVE SetToSeq(_)
SetToSeq(S) ==
    IF S = {} THEN << >>
    ELSE LET e == CHOOSE e \in S : TRUE IN << e >> \o SetToSeq(S \ {e})

\* A Driver that processes the day's movements although the round was lost;
\* the failed-round properties must tell it from Submit.
SubmitGoesOn ==
    /\ pc = "submit"
    /\ \E outcome \in {NoResponse} \cup
                      {[received |-> TRUE, demand |-> SetToSeq(S)] :
                         S \in {T \in SUBSET PostableToday :
                                  Len(demands) + Cardinality(T) <= MaxDemands}} :
          /\ day_response' = outcome
          /\ pc' = IF outcome.received THEN "ingest" ELSE "apply"
    /\ UNCHANGED << inputs, client, nodes, current_day, shipments_in_transit, demands,
                    movements, optimizer >>

\* main.py 347-350: play_round returns the day's outcome, or None after its
\* retries; None ends the loop.
Submit ==
    /\ pc = "submit"
    /\ \E outcome \in {NoResponse} \cup
                      {[received |-> TRUE, demand |-> SetToSeq(S)] :
                         S \in {T \in SUBSET PostableToday :
                                  Len(demands) + Cardinality(T) <= MaxDemands}} :
          /\ day_response' = outcome
          /\ pc' = IF outcome.received THEN "ingest" ELSE "end_session"
    /\ UNCHANGED << inputs, client, nodes, current_day, shipments_in_transit, demands,
                    movements, optimizer >>

\* main.py 354-381: a record that fails Demand's validation is logged and skipped.
RECURSIVE Ingest(_, _)
Ingest(ds, new_demands) ==
    IF new_demands = << >> THEN ds
    ELSE Ingest(IF DemandValid(Head(new_demands)) THEN Append(ds, Head(new_demands))
                ELSE ds,
                Tail(new_demands))

\* A Driver that ends the day after reading the demands, leaving the movements
\* unprocessed; the step-order properties must tell it from IngestDemand.
IngestDemandEndsDay ==
    /\ pc = "ingest"
    /\ demands' = Ingest(demands, day_response.demand)
    /\ pc' = "day_end"
    /\ UNCHANGED << inputs, client, nodes, current_day, shipments_in_transit, movements,
                    optimizer, day_response >>

\* main.py 352-381
IngestDemand ==
    /\ pc = "ingest"
    /\ demands' = Ingest(demands, day_response.demand)
    /\ pc' = "apply"
    /\ UNCHANGED << inputs, client, nodes, current_day, shipments_in_transit, movements,
                    optimizer, day_response >>

\* main.py 384-404: debit the source, schedule the arrival.
\* st = [nodes, ledger].
RECURSIVE Process(_, _)
Process(ms, st) ==
    IF ms = << >> THEN st
    ELSE LET movement == Head(ms)
             arrival_day == current_day + movement.leadTime
         IN  Process(Tail(ms),
                IF movement.fromNode \in DOMAIN st.nodes
                THEN [nodes |-> WithStock(st.nodes, movement.fromNode,
                                   st.nodes[movement.fromNode].stock - movement.amount),
                      ledger |-> Schedule(st.ledger, arrival_day, movement.toNode,
                                          movement.amount)]
                ELSE st)

ApplyMovements ==
    /\ pc = "apply"
    /\ LET st == Process(movements, [nodes |-> nodes, ledger |-> shipments_in_transit])
       IN  /\ nodes' = st.nodes
           /\ shipments_in_transit' = st.ledger
    /\ pc' = "day_end"
    /\ UNCHANGED << inputs, client, current_day, demands, movements, optimizer, day_response >>

\* A loop that steps over every other day; the run properties must tell it
\* from NextDay.
NextDaySkips ==
    /\ pc = "day_end"
    /\ \E logged \in BOOLEAN :
          IF ~logged
          THEN /\ pc' = "fatal"
               /\ UNCHANGED current_day
          ELSE IF current_day < TotalDays
          THEN /\ current_day' = current_day + 2
               /\ pc' = IF current_day + 2 >= TotalDays - EndgameDays
                        THEN "manage" ELSE "arrivals"
          ELSE /\ pc' = "end_session"
               /\ UNCHANGED current_day
    /\ UNCHANGED << inputs, client, nodes, shipments_in_transit, demands, movements,
                    optimizer, day_response >>

\* main.py 406-418, then 279 and 282: the day's penalties and KPIs are logged,
\* which raises on a response without the expected keys; then the for loop
\* steps to the next day, or leaves after the last.
NextDay ==
    /\ pc = "day_end"
    /\ \E logged \in BOOLEAN :
          IF ~logged
          THEN /\ pc' = "fatal"
               /\ UNCHANGED current_day
          ELSE IF current_day < TotalDays
          THEN /\ current_day' = current_day + 1
               /\ pc' = IF current_day + 1 >= TotalDays - EndgameDays
                        THEN "manage" ELSE "arrivals"
          ELSE /\ pc' = "end_session"
               /\ UNCHANGED current_day
    /\ UNCHANGED << inputs, client, nodes, shipments_in_transit, demands, movements,
                    optimizer, day_response >>

\* main.py 420-422
EndSession ==
    /\ pc = "end_session"
    /\ pc' = "done"
    /\ UNCHANGED << inputs, client, nodes, current_day, shipments_in_transit, demands,
                    movements, optimizer, day_response >>

\* main.py 424-430: an exception in the loop ends the session and is raised again.
Abort ==
    /\ pc = "fatal"
    /\ pc' = "raised"
    /\ UNCHANGED << inputs, client, nodes, current_day, shipments_in_transit, demands,
                    movements, optimizer, day_response >>

(***************************************************************************)
(* api_client.py: the APIClient.  A call of start_session, play_round or   *)
(* end_session is a frame [op, attempt]; start_session calls end_session   *)
(* on a 409, which puts a second frame on top of its own.  Each action is  *)
(* one request with the answer it gets.  The server is free to answer      *)
(* anything: 200 with a body, 200 with an empty body, 409, another status  *)
(* (written 500), a requests.exceptions.RequestException (a timeout, a     *)
(* refused connection) or another exception.                               *)
(***************************************************************************)
MaxRetries == 3

Answers == {"200", "200_empty", "409", "500", "RequestException", "Exception"}

\* The driver's variables, which the client never touches.
driver == << nodes, connections, production, catalog, current_day, pc,
             shipments_in_transit, demands, movements, is_endgame, planning_horizon,
             projected_stocks, active_demands, lp_status, day_response, path,
             stock_at_optimize, remaining_at_optimize >>

Frame(op, attempt) == [op |-> op, attempt |-> attempt]

\* The innermost call in progress.
Top == frames[Len(frames)]

NoRequests == [start |-> 0, play |-> 0, end |-> 0]

\* A caller invokes start_session on a client with no call in progress.
CallStartSession ==
    /\ frames = << >>
    /\ frames' = << Frame("start_session", 0) >>
    /\ result' = "pending"
    /\ requests_sent' = NoRequests
    /\ end_session_calls' = 0
    /\ UNCHANGED << driver, session_id, response >>

\* api_client.py 115-117: play_round without a session id returns None at once.
CallPlayRound ==
    /\ frames = << >>
    /\ IF session_id = "none"
       THEN /\ frames' = << >>
            /\ result' = "None"
       ELSE /\ frames' = << Frame("play_round", 0) >>
            /\ result' = "pending"
    /\ requests_sent' = NoRequests
    /\ end_session_calls' = 0
    /\ UNCHANGED << driver, session_id, response >>

\* api_client.py 165-167: end_session without a session id returns False at once.
CallEndSession ==
    /\ frames = << >>
    /\ IF session_id = "none"
       THEN /\ frames' = << >>
            /\ result' = "False"
       ELSE /\ frames' = << Frame("end_session", 0) >>
            /\ result' = "pending"
    /\ requests_sent' = NoRequests
    /\ end_session_calls' = 1
    /\ UNCHANGED << driver, session_id, response >>

\* The innermost call goes to its next attempt (continue).
Retry == frames' = [frames EXCEPT ![Len(frames)].attempt = @ + 1]

\* The outermost call returns value; no call is in progress any more.
Return(value) == frames' = << >> /\ result' = value

\* A client that never gives up; the retry properties must tell it from
\* RetryOrReturn.
RetryAlways(value) == Retry /\ UNCHANGED result

\* api_client.py 94-97, 101-104 and alike: after a failure, wait and go to the
\* next attempt unless this was the last.
RetryOrReturn(value) ==
    IF Top.attempt < MaxRetries - 1 THEN Retry /\ UNCHANGED result ELSE Return(value)

\* api_client.py 84-89: on a 409 start_session calls end_session, which returns
\* False at once without a session id (165-167) and start_session with it.
OnConflict ==
    /\ end_session_calls' = end_session_calls + 1
    /\ IF session_id = "none"
       THEN Return("False")
       ELSE /\ frames' = Append(frames, Frame("end_session", 0))
            /\ UNCHANGED result

\* api_client.py 55-107: one attempt of start_session.
StartSessionRequest ==
    /\ frames # << >>
    /\ Top.op = "start_session"
    /\ Top.attempt < MaxRetries
    /\ requests_sent' = [requests_sent EXCEPT !.start = @ + 1]
    /\ \E answer \in Answers :
          /\ response' = answer
          /\ CASE answer = "200" ->
                    /\ session_id' = "sid"
                    /\ Return("True")
                    /\ UNCHANGED end_session_calls
               [] answer = "200_empty" ->
                    /\ session_id' = "none"
                    /\ Return("False")
                    /\ UNCHANGED end_session_calls
               [] answer = "409" ->
                    /\ OnConflict
                    /\ UNCHANGED session_id
               [] answer \in {"500", "RequestException"} ->
                    /\ RetryOrReturn("False")
                    /\ UNCHANGED << session_id, end_session_calls >>
               [] answer = "Exception" ->
                    /\ Return("False")
                    /\ UNCHANGED << session_id, end_session_calls >>
    /\ UNCHANGED driver

\* api_client.py 109: the loop of start_session ran out, which it does when its
\* last attempt ended a session and went on (continue).
StartSessionExhausted ==
    /\ frames # << >>
    /\ Top.op = "start_session"
    /\ Top.attempt = MaxRetries
    /\ Return("False")
    /\ UNCHANGED << driver, session_id, response, requests_sent, end_session_calls >>

\* end_session returns value: to its caller if there is none in the client, else
\* to start_session (api_client.py 86-89), which goes to its next attempt on
\* True and returns False on False.
EndSessionReturns(value) ==
    IF Len(frames) = 1 THEN Return(value)
    ELSE IF value = "True"
    THEN /\ frames' = << Frame("start_session", frames[1].attempt + 1) >>
         /\ UNCHANGED result
    ELSE Return("False")

\* api_client.py 169-203: one attempt of end_session.
EndSessionRequest ==
    /\ frames # << >>
    /\ Top.op = "end_session"
    /\ requests_sent' = [requests_sent EXCEPT !.end = @ + 1]
    /\ \E answer \in Answers :
          /\ response' = answer
          /\ CASE answer \in {"200", "200_empty"} ->
                    /\ session_id' = "none"
                    /\ EndSessionReturns("True")
               [] answer \in {"409", "500", "RequestException"} ->
                    /\ IF Top.attempt < MaxRetries - 1
                       THEN Retry /\ UNCHANGED result
                       ELSE EndSessionReturns("False")
                    /\ UNCHANGED session_id
               [] answer = "Exception" ->
                    /\ EndSessionReturns("False")
                    /\ UNCHANGED session_id
    /\ UNCHANGED << driver, end_session_calls >>

\* api_client.py 127-159: one attempt of play_round; a 200 returns the parsed
\* body, which is {} for an empty one.
PlayRoundRequest ==
    /\ frames # << >>
    /\ Top.op = "play_round"
    /\ requests_sent' = [requests_sent EXCEPT !.play = @ + 1]
    /\ \E answer \in Answers :
          /\ response' = answer
          /\ CASE answer \in {"200", "200_empty"} -> Return("outcome")
               [] answer \in {"409", "500", "RequestException"} -> RetryOrReturn("None")
               [] answer = "Exception" -> Return("None")
    /\ UNCHANGED << driver, session_id, end_session_calls >>

Next ==
    \/ ManageFinalDayStock
    \/ ApplyArrivals
    \/ Produce
    \/ NewOptimizer
    \/ CriticalDrain
    \/ AllocateNormal
    \/ AllocateEndgame
    \/ Submit
    \/ IngestDemand
    \/ ApplyMovements
    \/ NextDay
    \/ EndSession
    \/ Abort

Spec == Init /\ [][Next]_vars

\* main.py runs one statement after another: a step that can be taken is taken.
LiveSpec == Spec /\ WF_vars(Next)

\* The APIClient on its own, called in any order by any caller.
ClientNext ==
    \/ CallStartSession
    \/ CallPlayRound
    \/ CallEndSession
    \/ StartSessionRequest
    \/ StartSessionExhausted
    \/ EndSessionRequest
    \/ PlayRoundRequest

ClientInit == Init /\ nodes = ScenarioA.nodes /\ connections = ScenarioA.connections

ClientSpec == ClientInit /\ [][ClientNext]_vars

\* A request gets its answer (requests.post has a timeout) and the client goes
\* on with its next statement.
ClientLive ==
    ClientSpec /\ WF_vars(StartSessionRequest) /\ WF_vars(StartSessionExhausted)
               /\ WF_vars(EndSessionRequest) /\ WF_vars(PlayRoundRequest)

(***************************************************************************)
(* Properties.                                                             *)
(***************************************************************************)
\* The day's steps after allocation, where movements is what optimize() returned.
AfterOptimize == pc \in {"submit", "ingest", "apply", "day_end"}

\* The total quantity of the movements of a list out of one node.
ShippedFrom(ms, node_id) ==
    SumAmounts(SelectSeq(ms, LAMBDA m : m.fromNode = node_id))

\* The total quantity of the movements of a list towards one node.
ShippedTo(ms, node_id) ==
    SumAmounts(SelectSeq(ms, LAMBDA m : m.toNode = node_id))

\* C1: in every state reached after a day's ApplyMovements step every node's
\* stock is >= 0 and the stock of every refinery and tank is <= its capacity.
C1_StockWithinBounds ==
    pc = "day_end" =>
      \A n \in NodeIds :
         /\ nodes[n].stock >= 0
         /\ nodes[n].type \in {"refinery", "tank"} => nodes[n].stock <= nodes[n].capacity

\* C2: the movements optimize() returns out of one node (critical drain, flow
\* model and endgame together) total at most the node's daily output and, for a
\* tank or customer, at most its stock when optimize() was called.
C2_OutflowWithinCaps ==
    AfterOptimize =>
      \A n \in NodeIds :
         /\ ShippedFrom(movements, n) <= nodes[n].daily_output
         /\ nodes[n].type # "refinery" =>
              ShippedFrom(movements, n) <= stock_at_optimize[n]

\* The quantity the ledger holds for one node under one arrival day.
InTransit(ledger, day, node_id) == ShippedTo(Get(ledger, day, << >>), node_id)

\* The total quantity of today's movements with one lead time towards one node.
ShippedWithLead(ms, lead_time, node_id) ==
    SumAmounts(SelectSeq(ms, LAMBDA m : m.toNode = node_id /\ m.leadTime = lead_time))

\* s is an initial part of t.
IsPrefix(s, t) == Len(s) <= Len(t) /\ \A i \in 1 .. Len(s) : s[i] = t[i]

\* The arrival days the ledger knows before or after a step.
LedgerDays == (DOMAIN shipments_in_transit) \cup (DOMAIN shipments_in_transit')

\* C3: ApplyMovements records every movement of day d with lead time l in the
\* ledger under day d + l and credits no node; a ledger entry stays until the
\* ApplyArrivals step of its own day, which credits exactly that day's entries;
\* no step but ApplyArrivals and Produce raises a stock.
C3_ArrivalOnlyOnItsDay ==
    [][/\ pc = "apply" =>
            /\ \A m \in {movements[i] : i \in DOMAIN movements} :
                  /\ m.postedDay = current_day
                  /\ current_day + m.leadTime \in DOMAIN shipments_in_transit'
            /\ \A day \in LedgerDays : \A n \in NodeIds :
                  InTransit(shipments_in_transit', day, n)
                    = InTransit(shipments_in_transit, day, n)
                        + ShippedWithLead(movements, day - current_day, n)
       /\ pc = "arrivals" =>
            /\ \A n \in NodeIds :
                  nodes'[n].stock
                    = nodes[n].stock + InTransit(shipments_in_transit, current_day, n)
            /\ shipments_in_transit' = Del(shipments_in_transit, current_day)
       /\ pc # "arrivals" =>
            \A day \in DOMAIN shipments_in_transit :
               /\ day \in DOMAIN shipments_in_transit'
               /\ IsPrefix(shipments_in_transit[day], shipments_in_transit'[day])
       /\ pc \notin {"arrivals", "produce"} =>
            \A n \in NodeIds : nodes'[n].stock <= nodes[n].stock
      ]_vars

\* C3, its case: of yesterday's movements one with lead time 1 was credited by
\* today's ApplyArrivals, which dropped the day's ledger entry, and one with
\* lead time 2 still waits in the ledger under tomorrow.
C3_Witness ==
    /\ pc = "produce"
    /\ current_day \notin DOMAIN shipments_in_transit
    /\ \E i, j \in DOMAIN movements :
          /\ movements[i].leadTime = 1
          /\ movements[i].postedDay + 1 = current_day
          /\ nodes[movements[i].toNode].stock >= movements[i].amount
          /\ movements[j].leadTime = 2
          /\ InTransit(shipments_in_transit, movements[j].postedDay + 2,
                       movements[j].toNode) >= movements[j].amount

\* C4: no step raises a demand's remaining amount, the list of demands only
\* grows, and every remaining amount is >= 0 in every state.
C4_RemainingNeverIncreases ==
    /\ [](\A i \in DOMAIN demands : demands[i].remaining_amount >= 0)
    /\ [][/\ Len(demands') >= Len(demands)
          /\ \A i \in DOMAIN demands :
                demands'[i].remaining_amount <= demands[i].remaining_amount]_vars

\* C4, its case: manage_final_day_stock has shipped towards a demand and taken
\* the shipment off its remaining amount.
C4_Witness ==
    /\ pc = "arrivals"
    /\ \E i \in DOMAIN demands :
          /\ demands[i].remaining_amount < demands[i].quantity
          /\ InTransit(shipments_in_transit, current_day + 1, demands[i].customer_id)
               = demands[i].quantity - demands[i].remaining_amount

\* C5: on every day of the endgame every movement optimize() returns, from the
\* critical drain or from either endgame pass, arrives by the run's last day.
C5_EndgameArrivalsInTime ==
    (AfterOptimize /\ TotalDays - current_day <= 5) =>
      \A i \in DOMAIN movements : current_day + movements[i].leadTime <= TotalDays

\* C6: on the days 37..42 the allocation step runs the endgame path and no flow
\* model is solved, on every earlier day it runs the flow-model path; the day
\* never decreases, so the endgame path once used is used on every later day.
\* No allocation step runs on a day whose critical drain raised.
C6_ModeByDay ==
    /\ AfterOptimize =>
         \/ path = (IF TotalDays - current_day <= 5 THEN "endgame" ELSE "normal")
         \/ path = "none" /\ movements = << >> /\ HandleCriticalRefineries.raised
    /\ (AfterOptimize /\ path = "endgame") =>
         (current_day \in 37 .. 42 /\ lp_status = "none")
    /\ (AfterOptimize /\ path = "normal") => current_day \in 0 .. 36

\* C6, its case: day 38, the endgame path has run.
C6_Witness == pc = "submit" /\ current_day = 38 /\ path = "endgame"

\* The flow model was solved today and the status is not Optimal.
NonOptimalToday ==
    AfterOptimize /\ path = "normal" /\ lp_status \notin {"Optimal", "none"}

\* C7 as stated: on a non-Optimal status optimize() returns an empty list and
\* the day's allocation changes no stock.
C7_NonOptimalReturnsNothing ==
    NonOptimalToday =>
      /\ movements = << >>
      /\ pc = "day_end" => Stocks = stock_at_optimize

\* C7: on a non-Optimal status the flow-model path adds no movement and changes
\* no stock, optimize() returns exactly the critical drain's movements, the
\* round is submitted as on any day, and the day ends with every stock lowered
\* by what the drain shipped out of the node.
C7_NonOptimalKeepsDrain ==
    /\ [](NonOptimalToday =>
            /\ \A i \in DOMAIN movements : movements[i].by = "critical"
            /\ pc = "day_end" =>
                 \A n \in NodeIds :
                    nodes[n].stock = stock_at_optimize[n] - ShippedFrom(movements, n))
    /\ [][(pc = "allocate" /\ ~is_endgame /\ lp_status' \notin {"Optimal", "none"}) =>
            /\ movements' = movements
            /\ nodes' = nodes
            /\ pc' = "submit"]_vars

\* C7, its case: the refinery holds more than its capacity, so that no flows
\* satisfy the model, and the drain has shipped; the day is over.
C7_Witness ==
    /\ NonOptimalToday
    /\ pc = "day_end"
    /\ movements # << >>
    /\ \E n \in NodeIds : /\ nodes[n].type = "refinery"
                          /\ stock_at_optimize[n] > nodes[n].capacity

\* Day 0 of Scenario A, the critical drain done.
ScenarioADrained ==
    /\ nodes = ScenarioA.nodes
    /\ connections = ScenarioA.connections
    /\ current_day = 0
    /\ pc = "allocate"

\* C8 as stated: in Scenario A the drain emits one movement of 500 units, the
\* link's capacity.
C8_DrainShipsLinkCapacity ==
    ScenarioADrained =>
      /\ Len(movements) = 1
      /\ movements[1].amount = 500

\* C8: in Scenario A the drain emits one movement, over the link to the tank,
\* of 100 units: the refinery's daily output, the least of stock 950, link
\* capacity 500, the tank's headroom and daily output 100.
C8_DrainShipsDailyOutput ==
    ScenarioADrained =>
      /\ Len(movements) = 1
      /\ movements[1].connectionId = "k1"
      /\ movements[1].fromNode = "r1"
      /\ movements[1].toNode = "t1"
      /\ movements[1].leadTime = 1
      /\ movements[1].amount = 100
      /\ movements[1].amount = nodes["r1"].daily_output

\* C8, its case: the drain has run on day 0 of Scenario A and shipped.
C8_Witness == ScenarioADrained /\ movements # << >>

\* Today lies in the delivery window of demand i, active when optimize() was
\* called, and today's movements ship towards its customer.
ShippedTowardsDemand(i) ==
    /\ remaining_at_optimize[i] > 0
    /\ demands[i].start_delivery_day <= current_day
    /\ current_day <= demands[i].end_delivery_day
    /\ ShippedTo(movements, demands[i].customer_id) > 0

\* C9: when the day's movements ship towards the customer of an active demand
\* inside its window, by the end of the day the remaining amount of a demand of
\* that customer is lower than it was when optimize() was called.
C9_ShipmentReducesRemaining ==
    pc = "day_end" =>
      \A i \in DOMAIN remaining_at_optimize :
         ShippedTowardsDemand(i) =>
           \E j \in DOMAIN remaining_at_optimize :
              /\ demands[j].customer_id = demands[i].customer_id
              /\ demands[j].remaining_amount < remaining_at_optimize[j]

\* The Driver's data: node stocks, the ledger and the demand list.
ledgers == << nodes, shipments_in_transit, demands >>

\* C10 as stated: the day's steps are ApplyArrivals, Produce, CriticalDrain,
\* Allocate, ApplyMovements, IngestDemand in that order, and no other step
\* changes the Driver's data.
C10_StatedOrder ==
    [][/\ pc = "arrivals" => pc' = "produce"
       /\ pc = "produce" => pc' \in {"optimizer", "critical"}
       /\ pc = "critical" => pc' \in {"allocate", "submit"}
       /\ pc = "allocate" => pc' \in {"submit", "apply"}
       /\ pc = "submit" => pc' \in {"apply", "end_session"}
       /\ pc = "apply" => pc' = "ingest"
       /\ pc = "ingest" => pc' = "day_end"
       /\ pc = "day_end" => pc' \in {"arrivals", "end_session", "fatal"}
       /\ pc \notin {"arrivals", "produce", "critical", "allocate", "apply", "ingest"}
            => UNCHANGED ledgers
      ]_vars

\* C10: the day's steps are, in order, manage_final_day_stock (from day 37),
\* ApplyArrivals, Produce, CriticalDrain, Allocate, the round's submission,
\* IngestDemand, ApplyMovements; building the optimizer, the critical drain,
\* the flow-model path, the submission and the step to the next day leave the
\* Driver's data unchanged.
C10_CodeOrder ==
    [][/\ pc = "manage" => (pc' = "arrivals" /\ current_day >= 37)
       /\ pc = "arrivals" => pc' = "produce"
       /\ pc = "produce" => pc' = "optimizer"
       /\ pc = "optimizer" => pc' = "critical"
       /\ pc = "critical" => pc' \in {"allocate", "submit"}
       /\ pc = "allocate" => pc' = "submit"
       /\ pc = "submit" => pc' \in {"ingest", "end_session"}
       /\ pc = "ingest" => pc' = "apply"
       /\ pc = "apply" => pc' = "day_end"
       /\ pc = "day_end" =>
            \/ pc' = "fatal"
            \/ pc' = "end_session" /\ current_day = TotalDays
            \/ pc' = "manage" /\ current_day' = current_day + 1 /\ current_day' >= 37
            \/ pc' = "arrivals" /\ current_day' = current_day + 1 /\ current_day' < 37
       /\ pc = "end_session" => pc' = "done"
       /\ pc = "fatal" => pc' = "raised"
       /\ (pc \in {"optimizer", "critical", "submit", "day_end", "end_session", "fatal"}
             \/ (pc = "allocate" /\ ~is_endgame))
            => UNCHANGED ledgers
      ]_vars

\* C10, its case: the day's demands are in the list, a demand posted today
\* among them, while the day's movements are still to be processed.
C10_Witness ==
    /\ pc = "apply"
    /\ movements # << >>
    /\ day_response.demand # << >>
    /\ \E i \in DOMAIN demands : demands[i].post_day = current_day
    /\ \A i \in DOMAIN movements :
          current_day + movements[i].leadTime \notin DOMAIN shipments_in_transit

\* C11: the stock of every customer is 0 in every reachable state, also after
\* shipments addressed to it have arrived.
C11_CustomerStockZero ==
    \A n \in NodeIds : nodes[n].type = "customer" => nodes[n].stock = 0

\* The run went through every day: the loop left after day 42 with the day's
\* round answered, and the session was ended.
RunComplete == pc = "done" /\ current_day = TotalDays /\ day_response.received

\* C12: a ledger entry is removed only by the ApplyArrivals step of the day it
\* is keyed under, which credits it to its destination and drops it, so that it
\* is credited once; and no entry is left in the ledger when a run has completed
\* all its days.
C12_EntriesConsumedOnce ==
    /\ [][/\ pc = "arrivals" =>
               /\ \A n \in NodeIds :
                     nodes'[n].stock
                       = nodes[n].stock + InTransit(shipments_in_transit, current_day, n)
               /\ shipments_in_transit' = Del(shipments_in_transit, current_day)
          /\ pc # "arrivals" =>
               \A day \in DOMAIN shipments_in_transit :
                  /\ day \in DOMAIN shipments_in_transit'
                  /\ IsPrefix(shipments_in_transit[day], shipments_in_transit'[day])
         ]_vars
    /\ [](RunComplete => DOMAIN shipments_in_transit = {})

\* C13: when play_round returns no outcome for day d, the Driver leaves the
\* loop: it goes to end_session, which it calls once and after which the run is
\* over (no step follows), and from the failed submission on no step changes the
\* day, a stock, the ledger or the demand list; day d's movements are never
\* processed.
C13_FailedRoundEndsRun ==
    [][/\ (pc = "submit" /\ ~day_response'.received) =>
             /\ pc' = "end_session"
             /\ UNCHANGED << ledgers, current_day, movements >>
       /\ pc = "end_session" =>
             /\ pc' = "done"
             /\ UNCHANGED << ledgers, current_day, movements, day_response >>
       /\ pc # "done"
      ]_vars

\* C13, its case: the round of a day before the last was lost with movements to
\* submit, and the run is over; the ledger holds nothing the day scheduled.
C13_Witness ==
    /\ pc = "done"
    /\ ~day_response.received
    /\ current_day < TotalDays
    /\ movements # << >>
    /\ \A i \in DOMAIN movements :
          current_day + movements[i].leadTime \notin DOMAIN shipments_in_transit

\* A request of start_session has just been answered with `answer`.
StartAnswered(answer) ==
    /\ frames # << >>
    /\ Top.op = "start_session"
    /\ requests_sent'.start = requests_sent.start + 1
    /\ response' = answer

\* C14: when a start request is answered 409, start_session sends a request
\* that ends the active session; when that request succeeds the start is sent
\* again; and start_session returns True whenever a start request is accepted.
C14_ConflictEndsAndRetries ==
    [][/\ StartAnswered("409") =>
             /\ Len(frames') = 2
             /\ frames'[2].op = "end_session"
       /\ (Len(frames) = 2 /\ requests_sent'.end = requests_sent.end + 1
             /\ response' \in {"200", "200_empty"}) =>
             /\ Len(frames') = 1
             /\ frames'[1].op = "start_session"
             /\ frames'[1].attempt < MaxRetries
       /\ StartAnswered("200") => (frames' = << >> /\ result' = "True")
      ]_vars

\* C15: within one call of start_session, play_round or end_session the client
\* sends at most max_retries requests of each kind and start_session calls
\* end_session at most max_retries times; a call that has returned has returned
\* a value; and every call returns, whatever the server answers.
C15_RetriesBounded ==
    /\ [](/\ requests_sent.start <= MaxRetries
          /\ requests_sent.play <= MaxRetries
          /\ requests_sent.end <= MaxRetries
          /\ end_session_calls <= MaxRetries
          /\ frames = << >> => result # "pending")
    /\ (frames # << >>) ~> (frames = << >>)

\* C15, its case: a start_session call used all its attempts, the last answered
\* 409, and the end_session it called used all of its own before both returned
\* False.
C15_Witness ==
    /\ frames = << >>
    /\ result = "False"
    /\ requests_sent.start = MaxRetries
    /\ requests_sent.end = MaxRetries
    /\ end_session_calls = 1

\* C16: when optimize() has returned, on any day and in either phase, every
\* node's stock is what it was when optimize() was called.
C16_OptimizeLeavesStock ==
    pc = "submit" => Stocks = stock_at_optimize

\* C17: over every network the entity validation accepts, neither the critical
\* drain nor the endgame heuristic ends in an error.
C17_HeuristicsNeverRaise ==
    /\ pc = "critical" => ~HandleCriticalRefineries.raised
    /\ (pc = "allocate" /\ is_endgame) => ~OptimizeEndgame.raised

\* C18: after the ApplyMovements step of an endgame day the stock of every
\* source of a pass (b) movement is lower than it was before the allocation by
\* the quantity of the day's movements out of that node, counted once.
C18_PassBDebitedOnce ==
    pc = "day_end" =>
      \A i \in DOMAIN movements :
         movements[i].by = "endgame_b" =>
           nodes[movements[i].fromNode].stock
             = stock_at_optimize[movements[i].fromNode]
                 - ShippedFrom(movements, movements[i].fromNode)

\* The flow model is about to be built.
BuildsFlowModel == pc = "allocate" /\ ~is_endgame /\ ~ModelRaises

\* C19: every flow variable has the bounds 0 and the least of link capacity,
\* source throughput (and stock, for a tank) and destination intake, and where
\* that least is <= 0 the variable is fixed at 0: the upper bound the variable
\* gets is never below its lower bound 0, so that 0 is a value it can take.
C19_FlowBoundsAdmitZero ==
    BuildsFlowModel => \A k \in ConnIds : Max(FlowUpperBound(k), 0) = FlowUpperBound(k)

\* What the drain's movements before the i-th took out of the i-th's source.
EarlierFrom(ms, i) ==
    SumAmounts(SelectSeq(SubSeq(ms, 1, i - 1), LAMBDA m : m.fromNode = ms[i].fromNode))

\* What the drain's movements before the i-th send to the i-th's destination
\* for the same arrival day.
EarlierInto(ms, i) ==
    SumAmounts(SelectSeq(SubSeq(ms, 1, i - 1),
                         LAMBDA m : m.toNode = ms[i].toNode /\ m.leadTime = ms[i].leadTime))

\* The intake of the i-th movement's destination as the drain sees it: a tank's
\* headroom less what the drain has sent it for that day, a customer's daily input.
IntakeFor(ms, i) ==
    LET dest_node == nodes[ms[i].toNode]
    IN  IF dest_node.type = "tank"
        THEN dest_node.capacity - dest_node.stock - EarlierInto(ms, i)
        ELSE dest_node.daily_input

\* C20: when the critical drain has run, each of its movements is > 0 and is
\* the least of the stock its refinery had left to clear, the link's capacity,
\* the destination's available intake and the refinery's daily output; the
\* stock left to clear is the refinery's stock less the drain's earlier
\* movements out of it; the drain ships only out of critical refineries, and
\* the movements out of one of them total at most its stock.
C20_DrainQuantity ==
    pc = "allocate" =>
      /\ \A i \in DOMAIN movements :
            /\ movements[i].by = "critical"
            /\ nodes[movements[i].fromNode].type = "refinery"
            /\ IsCritical(nodes[movements[i].fromNode])
            /\ movements[i].amount > 0
            /\ movements[i].amount
                 = Min4(nodes[movements[i].fromNode].stock - EarlierFrom(movements, i),
                        connections[movements[i].connectionId].max_capacity,
                        IntakeFor(movements, i),
                        nodes[movements[i].fromNode].daily_output)
      /\ \A n \in NodeIds :
            ShippedFrom(movements, n) > 0 => ShippedFrom(movements, n) <= nodes[n].stock

\* C20, its case: the drain shipped over two routes of one refinery, and over
\* the second what the first had left of the stock.
C20_Witness ==
    /\ pc = "allocate"
    /\ Len(movements) = 2
    /\ movements[1].fromNode = movements[2].fromNode
    /\ movements[1].connectionId # movements[2].connectionId
    /\ movements[2].amount = nodes[movements[2].fromNode].stock - movements[1].amount
    /\ movements[2].amount < connections[movements[2].connectionId].max_capacity


\* C21: when the critical drain has run, every movement it returned leaves a
\* refinery whose stock is above 70% of its capacity or whose stock plus one
\* day's output is above 90% of its capacity; no tank, no customer and no
\* refinery under both marks is the source of a drain movement.
C21_DrainOnlyFromCritical ==
    pc = "allocate" =>
      \A i \in DOMAIN movements :
        LET source == nodes[movements[i].fromNode]
        IN  /\ source.type = "refinery"
            /\ \/ source.stock * 10 > 7 * source.capacity
               \/ (source.stock + source.daily_output) * 10 > 9 * source.capacity

\* C21, its case: the drain shipped out of a refinery at or under the 70% mark
\* that one day's output would take over the 90% mark.
C21_Witness ==
    /\ pc = "allocate"
    /\ movements # << >>
    /\ LET source == nodes[movements[1].fromNode]
       IN  /\ source.stock * 10 <= 7 * source.capacity
           /\ (source.stock + source.daily_output) * 10 > 9 * source.capacity


\* The total quantity the ledger holds for one node over a set of arrival days.
RECURSIVE PendingOver(_, _, _)
PendingOver(ledger, days, node_id) ==
    IF days = {} THEN 0
    ELSE LET day == CHOOSE d \in days : TRUE
         IN  InTransit(ledger, day, node_id) + PendingOver(ledger, days \ {day}, node_id)

\* All inflow scheduled to one node and not yet arrived.
PendingInflow(node_id) ==
    PendingOver(shipments_in_transit, DOMAIN shipments_in_transit, node_id)

\* C22: when the critical drain has shipped into a tank, the inflow already
\* scheduled to the tank and not yet arrived plus what the drain newly sends
\* it is at most the tank's headroom, capacity - stock.
C22_DrainCountsPendingInflow ==
    pc = "allocate" =>
      \A n \in NodeIds :
        (nodes[n].type = "tank" /\ ShippedTo(movements, n) > 0)
          => PendingInflow(n) + ShippedTo(movements, n)
               <= nodes[n].capacity - nodes[n].stock


\* The total quantity of the movements of a list that the two endgame passes
\* shipped out of one node.
EndgameShippedFrom(ms, node_id) ==
    SumAmounts(SelectSeq(ms, LAMBDA m : /\ m.fromNode = node_id
                                        /\ m.by \in {"endgame_a", "endgame_b"}))

\* C23: when optimize() has run the endgame passes, what passes (a) and (b)
\* together shipped out of a node is at most the stock the node had when
\* optimize() began.
C23_PassBSeesPassA ==
    (pc = "submit" /\ is_endgame) =>
      \A n \in NodeIds :
        EndgameShippedFrom(movements, n) > 0
          => EndgameShippedFrom(movements, n) <= stock_at_optimize[n]


\* C24: every movement optimize() returned on day d, whichever path built it,
\* has a quantity > 0, posted day d, the id of an existing link, that link's
\* source, destination and lead time, the lead time being >= 1; and the flow
\* model gives at most one movement per link, that of its variable for day d.
C24_MovementShape ==
    pc = "submit" =>
      /\ \A i \in DOMAIN movements :
            /\ movements[i].by \in {"critical", "lp", "endgame_a", "endgame_b"}
            /\ movements[i].amount > 0
            /\ movements[i].postedDay = current_day
            /\ movements[i].connectionId \in ConnIds
            /\ movements[i].fromNode = connections[movements[i].connectionId].source
            /\ movements[i].toNode = connections[movements[i].connectionId].destination
            /\ movements[i].leadTime = connections[movements[i].connectionId].lead_time_days
            /\ movements[i].leadTime >= 1
      /\ \A i, j \in DOMAIN movements :
            (/\ movements[i].by = "lp"
             /\ movements[j].by = "lp"
             /\ movements[i].connectionId = movements[j].connectionId) => i = j

\* C24, its case: optimize() returned a drain movement and a flow-model movement.
C24_Witness ==
    /\ pc = "submit"
    /\ \E i, j \in DOMAIN movements :
          movements[i].by = "critical" /\ movements[j].by = "lp"


\* C25: the Produce step raises the stock of every refinery by its production
\* rate on a day with more than 5 days remaining and by the lesser of the rate
\* and capacity - stock on a day with at most 5 days remaining, and leaves
\* every other node as it was.
C25_ProduceAddsRate ==
    [][pc = "produce" =>
         \A n \in NodeIds :
           IF nodes[n].type = "refinery"
           THEN /\ nodes'[n].stock - nodes[n].stock
                     = IF TotalDays - current_day > 5
                       THEN production[n]
                       ELSE Min(production[n], nodes[n].capacity - nodes[n].stock)
                /\ [nodes'[n] EXCEPT !.stock = 0] = [nodes[n] EXCEPT !.stock = 0]
           ELSE nodes'[n] = nodes[n]]_vars

\* C25, its case: on one of the last days the Produce step has filled a
\* refinery with a positive rate exactly to its capacity.
C25_Witness ==
    /\ pc = "optimizer"
    /\ TotalDays - current_day <= 5
    /\ \E n \in NodeIds : /\ nodes[n].type = "refinery"
                          /\ production[n] > 0
                          /\ nodes[n].stock = nodes[n].capacity


\* C26: a step that adds entries to the in-transit ledger under an arrival
\* day a is the ApplyMovements step of an earlier day d, and each entry added
\* is the destination and quantity of a movement optimize() returned that day
\* over an existing link into that destination with d + lead time = a.
C26_LedgerHoldsMovements ==
    [][\A a \in DOMAIN shipments_in_transit' :
         LET before == Get(shipments_in_transit, a, << >>)
             after == shipments_in_transit'[a]
         IN  Len(after) > Len(before) =>
               /\ pc = "apply"
               /\ current_day < a
               /\ \A i \in (Len(before) + 1) .. Len(after) :
                    \E j \in DOMAIN movements :
                       /\ movements[j].toNode = after[i].toNode
                       /\ movements[j].amount = after[i].amount
                       /\ current_day + movements[j].leadTime = a
                       /\ movements[j].connectionId \in ConnIds
                       /\ connections[movements[j].connectionId].destination
                            = after[i].toNode]_vars


\* The position of a step within its day.
DayStepRank(position) ==
    CASE position = "manage" -> 0
      [] position = "arrivals" -> 1
      [] position = "produce" -> 2
      [] position = "optimizer" -> 3
      [] position = "critical" -> 4
      [] position = "allocate" -> 5
      [] position = "submit" -> 6
      [] position = "ingest" -> 7
      [] position = "apply" -> 8
      [] position = "day_end" -> 9
      [] OTHER -> 10

C28_ProduceNeverLowers ==
    [][pc = "produce" => \A n \in NodeIds : nodes'[n].stock >= nodes[n].stock]_vars


\* The demand gets a minimum-delivery constraint today, its customer takes in
\* a positive quantity a day, and no link into the customer has a variable of
\* the horizon that arrives inside the demand's delivery window.
OutOfReach(demand) ==
    /\ demand.remaining_amount > 0
    /\ demand.end_delivery_day >= current_day
    /\ DeliveryWindow(demand) # {}
    /\ nodes[demand.customer_id].daily_input > 0
    /\ \A k \in ConnIds : \A day \in DeliveryWindow(demand) :
          connections[k].destination = demand.customer_id
            => << k, day - connections[k].lead_time_days >> \notin FlowKeys

\* Shipping nothing satisfies the bounds and every constraint of today's model
\* but the minimum-delivery constraint of the i-th active demand.
FeasibleWithout(i) ==
    /\ BoundsSatisfiable
    /\ \A node_id \in NodeIds : \A day \in HorizonDays :
          /\ CapacityConstraint(node_id, day, ZeroFlow, ZeroFlow)
          /\ FlowConservationConstraint(node_id, day, ZeroFlow, ZeroFlow)
    /\ \A j \in 1 .. Len(active_demands) :
          j # i => DemandConstraint(demands[active_demands[j]], ZeroFlow)

\* C29: on a flow-model day, when the model has a solution without the
\* minimum-delivery constraint of an active demand that no link can serve
\* inside its window, the model with that constraint has a solution too: the
\* solver can answer Optimal.
C29_OneDemandKeepsFeasible ==
    (pc = "allocate" /\ ~is_endgame /\ ~ModelRaises) =>
      \A i \in 1 .. Len(active_demands) :
        (OutOfReach(demands[active_demands[i]]) /\ FeasibleWithout(i))
          => \E answer \in SolverAnswers : answer.status = "Optimal"


\* C30: for every arrival day and every tank or customer, the quantities the
\* in-transit ledger holds for that node under that day total at most the
\* node's daily input.
C30_ArrivalsWithinDailyInput ==
    \A a \in DOMAIN shipments_in_transit : \A n \in NodeIds :
       nodes[n].type \in {"tank", "customer"}
         => InTransit(shipments_in_transit, a, n) <= nodes[n].daily_input

=============================================================================
